---- MODULE Spec2Model ----
(***************************************************************************)
(* Subscription lifecycle of the art-club bot: the Prodamus webhook        *)
(* (webhook/prodamus.py), promo redemption and checkout (bot/handlers/     *)
(* user.py), the expiry sweeper (bot/utils/scheduler.py) and the ledger    *)
(* they share (bot/database/database.py, models.py).                       *)
(*                                                                         *)
(* Every coroutine is a task whose steps are its awaits: one action per    *)
(* database, Telegram or channel call, so tasks interleave exactly where   *)
(* the event loop can switch.  Time is counted in ticks, TicksPerDay of    *)
(* them to a day; timedelta.days is the floor of a tick difference.        *)
(***************************************************************************)
EXTENDS Integers, Sequences, FiniteSets, Bags, TLC

\* ------------------------------------------------------------------ bounds
NumUsers == 2          \* registered Telegram users 1..NumUsers
TicksPerDay == 2       \* clock resolution
MaxTicks == 2          \* ticks the clock advances in one behaviour
MaxPasses == 2         \* revoke-passes started in one behaviour
MaxParse == 9          \* largest integer literal int() is asked to read
MaxCreated == 1        \* promo codes an admin creates in one behaviour

\* ------------------------------------------------------- program constants
GRACE_DAYS == 2
REMIND_DAYS == 3
MONTH_DAYS == 30
PRICE_TOLERANCE == 100
DEFAULT_SUM == 3500
FIXED_FREE_THRESHOLD == 99999

\* Python None in an Optional[int] column or variable; real values are >= 0
Null == 0 - 1

Users == 1..NumUsers

\* ---------------------------------------------------------------- helpers
Digit == <<"0", "1", "2", "3", "4", "5", "6", "7", "8", "9">>

RECURSIVE Str(_)
\* str(i) of a non-negative integer
Str(i) == IF i < 10 THEN Digit[i + 1] ELSE Str(i \div 10) \o Digit[(i % 10) + 1]

\* int(s): the value of a decimal literal, Null where Python raises ValueError
ParseInt(s) ==
    IF \E i \in 0..MaxParse : Str(i) = s
    THEN CHOOSE i \in 0..MaxParse : Str(i) = s
    ELSE Null

\* timedelta(days=d) in ticks
Days(d) == d * TicksPerDay

\* (a - b).days: whole days, rounded towards minus infinity
DaysBetween(a, b) == (a - b) \div TicksPerDay

\* Python truthiness of an Optional[int]
Falsy(x) == x = Null \/ x = 0

\* ------------------------------------------------------------- plan table
PlanKeys == <<"1_month", "3_months", "6_months", "12_months">>

\* get_plan_config(): months and price of every plan, environment defaults
get_plan_config ==
    [k \in {PlanKeys[i] : i \in 1..Len(PlanKeys)} |->
        CASE k = "1_month"   -> [months |-> 1,  price |-> 3500]
          [] k = "3_months"  -> [months |-> 3,  price |-> 9450]
          [] k = "6_months"  -> [months |-> 6,  price |-> 17850]
          [] k = "12_months" -> [months |-> 12, price |-> 33600]]

Abs(x) == IF x < 0 THEN 0 - x ELSE x

\* ------------------------------------------------- gateway notifications
\* A notification is the form data of one request.  order_id is the list of
\* its "_"-separated parts, payment_type the list of its words, a missing
\* form field is Absent (strings) or Null (numbers).  user_id is a form field
\* the handler never reads.
Absent == "<absent>"
AUTO_MARKERS == {"Avtoplatezh", "Auto"}

Note(order, status, ptype, extra, tg, sum) ==
    [order_id |-> order, payment_status |-> status, payment_type |-> ptype,
     customer_extra |-> extra, tg_user_id |-> tg, sum |-> sum, order_sum |-> Null,
     user_id |-> Absent, subscription_autopayment |-> Absent]

\* the clock value of Init; expiry dates before it lie in the past
StartTime == Days(GRACE_DAYS + 1) + 1

StdOrder(u)      == <<"artclub", Str(u), "1700000000">>
CheckoutOrder(u, t) == <<"artclub", Str(u), Str(t)>>
GiftOrder(u)     == <<"gift", Str(u), "1700000001">>
AutoOrder(u)     == <<"77" \o Str(u)>>

\* plans chosen in the chat checkout
CheckoutPlans == {"1_month"}

\* what the gateway may deliver: a standard purchase that skipped the chat
\* checkout, the payment of a chat checkout, a gift purchase, a recurring charge
Notifications ==
    {  Note(StdOrder(1), "success", <<"Card">>, "1", Absent, 9450),
       Note(CheckoutOrder(1, StartTime), "success", <<"Card">>, "1", Absent, 3500),
       Note(GiftOrder(1), "success", <<"Card">>, "1", Absent, 17850),
       Note(AutoOrder(2), Absent, <<"Avtoplatezh">>, "2", Absent, 3500) }

NoNote == Note(<<>>, Absent, <<>>, Absent, Absent, Null)

\* data.get(field, default) for a string field
Get(value, default) == IF value = Absent THEN default ELSE value

\* prodamus_webhook: order_id rejected as invalid
invalid_order_id(n) == n.order_id = <<>> \/ n.order_id = <<"0">>

\* prodamus_webhook: the charged amount
amount_of(n) ==
    IF n.sum /= Null THEN n.sum
    ELSE IF n.order_sum /= Null THEN n.order_sum
    ELSE DEFAULT_SUM

\* prodamus_webhook: "Автоплатеж" in payment_type or "Auto" in payment_type
is_autopayment(n) ==
    \E i \in 1..Len(n.payment_type) : n.payment_type[i] \in AUTO_MARKERS

\* a handler that does not tell a gift order from a standard one
is_gift_never(n) == FALSE

\* prodamus_webhook: order_id.startswith("gift_")
is_gift(n) == Len(n.order_id) >= 2 /\ n.order_id[1] = "gift"

\* a handler that books a notification of unknown origin on the first user
extract_user_id_fallback(n) == 1

\* prodamus_webhook: the user id, from customer_extra, then order_id, then
\* tg_user_id; a source is asked only while user_id is still falsy
extract_user_id(n) ==
    LET extra == Get(n.customer_extra, "")
        u1 == IF extra /= "" THEN ParseInt(extra) ELSE Null
        u2 == IF ~Falsy(u1) THEN u1
              ELSE IF Len(n.order_id) >= 3 /\ ParseInt(n.order_id[2]) /= Null
                   THEN ParseInt(n.order_id[2])
                   ELSE u1
        tg == Get(n.tg_user_id, "")
        u3 == IF ~Falsy(u2) THEN u2
              ELSE IF tg /= "" /\ ParseInt(tg) /= Null THEN ParseInt(tg)
              ELSE u2
    IN  u3

\* prodamus_webhook: payment_status and payment_status != "success"
not_successful(n) ==
    LET st == Get(n.payment_status, "success")
    IN  st /= "" /\ st /= "success"

\* mutant: the amount is not looked at
resolve_plan_default(amount) == "1_month"

\* prodamus_webhook: the plan whose price is within the tolerance of the
\* amount, the first in table order, "1_month" when there is none
resolve_plan(amount) ==
    LET hits == { i \in 1..Len(PlanKeys) :
                    Abs(amount - get_plan_config[PlanKeys[i]].price) < PRICE_TOLERANCE }
    IN  IF hits = {} THEN "1_month"
        ELSE PlanKeys[CHOOSE i \in hits : \A j \in hits : i <= j]

\* ------------------------------------------------------------------ state
WebhookTasks == {"w1", "w2"}
ChatTasks == {"r1", "r2"}

VARIABLES
    now,            \* datetime.utcnow(), in ticks
    users,          \* table users: id -> is_subscribed, subscription_until
    subscriptions,  \* table subscriptions, in insertion order
    promocodes,     \* table promocodes, in insertion order
    payments,       \* table payments, in insertion order
    members,        \* users who are members of the channel
    wh,             \* webhook requests: position, form data, response
    chat,           \* promo messages: position, sender, text, outcome
    sweep,          \* the revoke-pass: position, expired users read, index
    remind,         \* the reminder-pass: position, subscribers read, index
    fsm,            \* FSM storage and the last message handled, per user
    log             \* bag of the grants, invitations, removals and notices made

vars == <<now, users, subscriptions, promocodes, payments, members, wh, chat, sweep,
          remind, fsm, log>>

tasks == <<wh, chat, sweep, remind>>

ledger == <<users, subscriptions, promocodes, payments>>

\* one entry of the log
Event(e, order, user, code) == [e |-> e, order |-> order, user |-> user, code |-> code]

Logged(ev) == log (+) SetToBag({ev})

Count(ev) == CopiesIn(ev, log)

\* ----------------------------------------------------------------- ledger
\* Database.get_payment: index of the row with this order_id, 0 for None
get_payment(order) ==
    IF \E i \in 1..Len(payments) : payments[i].order_id = order
    THEN CHOOSE i \in 1..Len(payments) : payments[i].order_id = order
    ELSE 0

\* mutant: the order_id column without its unique constraint
payment_conflict_never(order) == FALSE

\* Payment.order_id is unique: the insert raises IntegrityError on a clash
payment_conflict(order) == \E i \in 1..Len(payments) : payments[i].order_id = order

\* Database.add_payment: the table after the insert has committed
add_payment(user_id, order, amount, plan, months, status) ==
    Append(payments, [user_id |-> user_id, order_id |-> order, amount |-> amount,
                      subscription_plan |-> plan, duration_months |-> months,
                      status |-> status])

\* Database.add_subscription: the row appended in the transaction
subscription_row(user_id, months, expires_at, by, code) ==
    [user_id |-> user_id, duration_months |-> months, started_at |-> now,
     expires_at |-> expires_at, activated_by |-> by, promocode |-> code]

\* mutant: the UPDATE keeps an expiry that is later than the new one
user_after_grant_keep_later(user_id, expires_at) ==
    IF user_id \in DOMAIN users
    THEN [users EXCEPT ![user_id].is_subscribed = TRUE,
                       ![user_id].subscription_until =
                           IF @ /= Null /\ @ > expires_at THEN @ ELSE expires_at]
    ELSE users

\* mutant: the UPDATE sets the flag and leaves the expiry as it was
user_after_grant_flag_only(user_id, expires_at) ==
    IF user_id \in DOMAIN users
    THEN [users EXCEPT ![user_id].is_subscribed = TRUE]
    ELSE users

\* Database.add_subscription: the UPDATE of the user in the same transaction
user_after_grant(user_id, expires_at) ==
    IF user_id \in DOMAIN users
    THEN [users EXCEPT ![user_id].is_subscribed = TRUE,
                       ![user_id].subscription_until = expires_at]
    ELSE users

\* mutant: the grant replaces the earlier rows of the user
add_subscription_upsert(user_id, months, expires_at, by, code) ==
    /\ subscriptions' =
           LET Others(r) == r.user_id /= user_id
           IN  Append(SelectSeq(subscriptions, Others),
                      subscription_row(user_id, months, expires_at, by, code))
    /\ users' = user_after_grant(user_id, expires_at)

\* Database.add_subscription: row and user change commit together
add_subscription(user_id, months, expires_at, by, code) ==
    /\ subscriptions' = Append(subscriptions,
                               subscription_row(user_id, months, expires_at, by, code))
    /\ users' = user_after_grant(user_id, expires_at)

\* mutant: the UPDATE is never committed
update_subscription_status_lost(user_id, flag, expires_at) == users' = users

\* mutant: the UPDATE writes the expiry and leaves the flag as it was
update_subscription_status_until_only(user_id, flag, expires_at) ==
    users' = IF user_id \in DOMAIN users
             THEN [users EXCEPT ![user_id].subscription_until = expires_at]
             ELSE users

\* mutant: the UPDATE writes the flag and leaves the expiry as it was
update_subscription_status_flag_only(user_id, flag, expires_at) ==
    users' = IF user_id \in DOMAIN users
             THEN [users EXCEPT ![user_id].is_subscribed = flag]
             ELSE users

\* Database.update_subscription_status: a blind UPDATE of flag and expiry
update_subscription_status(user_id, flag, expires_at) ==
    users' = IF user_id \in DOMAIN users
             THEN [users EXCEPT ![user_id].is_subscribed = flag,
                                ![user_id].subscription_until = expires_at]
             ELSE users

\* Database.get_promocode: index of the row with this code, 0 for None
get_promocode(code) ==
    IF \E i \in 1..Len(promocodes) : promocodes[i].code = code
    THEN CHOOSE i \in 1..Len(promocodes) : promocodes[i].code = code
    ELSE 0

\* Database.create_promocode: the row inserted, used_count 0 and active
promocode_row(code, dtype, value, months, max_uses, created_by, gift, for_user_id) ==
    [code |-> code, discount_type |-> dtype, discount_value |-> value,
     duration_months |-> months, max_uses |-> max_uses, used_count |-> 0,
     for_user_id |-> for_user_id, is_gift |-> gift, valid_until |-> Null,
     is_active |-> TRUE, created_by |-> created_by]

\* ---------------------------------------------------------------- webhook
\* codes random.randint can produce for a gift
GiftCodes == {"GIFT_100001", "GIFT_100002"}

\* the positions of prodamus_webhook that are a database call
WebhookDbCalls == {"auto_get", "auto_addpay", "auto_addsub", "std_get", "dup_user",
                   "dup_sub", "std_addpay", "gift_create", "std_addsub"}

\* the request of task t moves on to position pc
Goto(t, pc) == wh' = [wh EXCEPT ![t].pc = pc]

\* the request of task t is answered
Answer(t, status, message) ==
    /\ wh' = [wh EXCEPT ![t].pc = "done", ![t].resp = status, ![t].msg = message]
    /\ log' = log

\* the HTTP status of the response of a request: every return of
\* prodamus_webhook, the one of its except clause included, is a dict, which
\* FastAPI sends with status 200; Null while the request is not answered
http_status(task) == IF task.pc = "done" THEN 200 ELSE Null

\* prodamus_webhook up to its first database call: the form data is read,
\* the order id checked, the user id extracted, the status filtered and the
\* payment classified
Receive(t, n) ==
    /\ wh[t].pc = "idle"
    /\ LET reply(status, message) ==
               wh' = [wh EXCEPT ![t] = [pc |-> "done", n |-> n,
                                        resp |-> status, msg |-> message]]
           enter(pc) ==
               wh' = [wh EXCEPT ![t] = [pc |-> pc, n |-> n, resp |-> "", msg |-> ""]]
       IN  IF invalid_order_id(n) THEN reply("error", "Invalid order_id")
           ELSE IF Falsy(extract_user_id(n)) THEN reply("error", "Cannot extract user_id")
           ELSE IF not_successful(n) THEN reply("ok", "Payment not successful")
           ELSE IF is_autopayment(n) THEN enter("auto_get")
           ELSE enter("std_get")
    /\ UNCHANGED <<now, ledger, members, log, chat, sweep, remind, fsm>>

\* autopayment branch: existing_payment = await db.get_payment(order_id)
AutoGetPayment(t) ==
    /\ wh[t].pc = "auto_get"
    /\ IF get_payment(wh[t].n.order_id) /= 0
       THEN Answer(t, "ok", "Autopayment already processed")
       ELSE Goto(t, "auto_addpay") /\ log' = log
    /\ UNCHANGED <<now, ledger, members, chat, sweep, remind, fsm>>

\* autopayment branch: await db.add_payment(..., status="success")
AutoAddPayment(t) ==
    /\ wh[t].pc = "auto_addpay"
    /\ LET n == wh[t].n IN
       IF payment_conflict(n.order_id)
       THEN /\ Answer(t, "error", "Internal error")
            /\ payments' = payments
       ELSE /\ payments' = add_payment(extract_user_id(n), n.order_id, amount_of(n),
                                       "autopayment_1_month", 1, "success")
            /\ Goto(t, "auto_addsub")
            /\ log' = log
    /\ UNCHANGED <<now, users, subscriptions, promocodes, members, chat, sweep, remind, fsm>>

\* autopayment branch: the new expiry, datetime.utcnow() + timedelta(days=30)
autopayment_expires(user_id) == now + Days(MONTH_DAYS)

\* autopayment branch: await db.add_subscription(..., activated_by="autopayment")
AutoAddSubscription(t) ==
    /\ wh[t].pc = "auto_addsub"
    /\ LET n == wh[t].n
           u == extract_user_id(n)
       IN  /\ add_subscription(u, 1, autopayment_expires(u), "autopayment", "")
           /\ log' = Logged(Event("sub", n.order_id, u, ""))
    /\ Goto(t, "auto_access")
    /\ UNCHANGED <<now, promocodes, payments, members, chat, sweep, remind, fsm>>

\* autopayment branch: get_chat_member, send_invite_to_user for a user who
\* is not in the channel, and the renewal message; each failure is caught
AutoAccess(t) ==
    /\ wh[t].pc = "auto_access"
    /\ LET n == wh[t].n
           u == extract_user_id(n)
           l1 == IF u \in members THEN log ELSE Logged(Event("invite", <<>>, u, ""))
       IN  /\ wh' = [wh EXCEPT ![t].pc = "done", ![t].resp = "ok",
                               ![t].msg = "Autopayment processed"]
           /\ log' = l1
    /\ UNCHANGED <<now, ledger, members, chat, sweep, remind, fsm>>

\* mutant: an order that has a Payment row is fulfilled once more
after_get_payment_again(existing) == IF existing /= 0 THEN "std_addsub" ELSE "std_addpay"

\* standard branch: where the handler goes once get_payment has answered;
\* any existing row, whatever its status, counts as already processed
after_get_payment(existing) == IF existing /= 0 THEN "dup_user" ELSE "std_addpay"

\* standard branch: existing_payment = await db.get_payment(order_id)
StdGetPayment(t) ==
    /\ wh[t].pc = "std_get"
    /\ Goto(t, after_get_payment(get_payment(wh[t].n.order_id)))
    /\ UNCHANGED <<now, ledger, members, log, chat, sweep, remind, fsm>>

\* duplicate: user = await db.get_user(user_id); user and user.is_subscribed
DupGetUser(t) ==
    /\ wh[t].pc = "dup_user"
    /\ LET u == extract_user_id(wh[t].n) IN
       IF u \in DOMAIN users /\ users[u].is_subscribed
       THEN Goto(t, "dup_sub") /\ log' = log
       ELSE Answer(t, "ok", "Payment already processed")
    /\ UNCHANGED <<now, ledger, members, chat, sweep, remind, fsm>>

\* duplicate: the user's subscription with the latest expires_at, if any
DupGetSubscription(t) ==
    /\ wh[t].pc = "dup_sub"
    /\ LET u == extract_user_id(wh[t].n) IN
       IF \E i \in 1..Len(subscriptions) : subscriptions[i].user_id = u
       THEN Goto(t, "dup_access") /\ log' = log
       ELSE Answer(t, "ok", "Payment already processed")
    /\ UNCHANGED <<now, ledger, members, chat, sweep, remind, fsm>>

\* duplicate: get_chat_member and a new invite for a user outside the channel
DupAccess(t) ==
    /\ wh[t].pc = "dup_access"
    /\ LET n == wh[t].n
           u == extract_user_id(n)
           l1 == IF u \in members THEN log ELSE Logged(Event("invite", <<>>, u, ""))
       IN  /\ wh' = [wh EXCEPT ![t].pc = "done", ![t].resp = "ok",
                               ![t].msg = "Payment already processed"]
           /\ log' = l1
    /\ UNCHANGED <<now, ledger, members, chat, sweep, remind, fsm>>

\* standard branch: await db.add_payment(..., status="success"), the plan
\* taken from the amount and tagged gift_ for a gift order
StdAddPayment(t) ==
    /\ wh[t].pc = "std_addpay"
    /\ LET n == wh[t].n
           plan == resolve_plan(amount_of(n))
       IN  IF payment_conflict(n.order_id)
           THEN /\ Answer(t, "error", "Internal error")
                /\ payments' = payments
           ELSE /\ payments' = add_payment(extract_user_id(n), n.order_id, amount_of(n),
                                           IF is_gift(n) THEN "gift_" \o plan ELSE plan,
                                           get_plan_config[plan].months, "success")
                /\ Goto(t, IF is_gift(n) THEN "gift_create" ELSE "std_addsub")
                /\ log' = log
    /\ UNCHANGED <<now, users, subscriptions, promocodes, members, chat, sweep, remind, fsm>>

\* gift branch: await db.create_promocode(GIFT_<random>, "free", max_uses=1,
\* is_gift=True); Promocode.code is unique, a clash raises
GiftCreatePromocode(t) ==
    /\ wh[t].pc = "gift_create"
    /\ \E code \in GiftCodes :
         LET n == wh[t].n
             months == get_plan_config[resolve_plan(amount_of(n))].months
         IN  IF get_promocode(code) /= 0
             THEN /\ Answer(t, "error", "Internal error")
                  /\ promocodes' = promocodes
             ELSE /\ promocodes' = Append(promocodes,
                        promocode_row(code, "free", 100, months, 1,
                                      extract_user_id(n), TRUE, Null))
                  /\ Goto(t, "gift_notify")
                  /\ log' = Logged(Event("gift", n.order_id, extract_user_id(n), code))
    /\ UNCHANGED <<now, users, subscriptions, payments, members, chat, sweep, remind, fsm>>

\* gift branch: await bot.send_message(user_id, code); a Telegram error is
\* not caught here and reaches the handler's except
GiftNotify(t) ==
    /\ wh[t].pc = "gift_notify"
    /\ \E sent \in BOOLEAN :
         IF sent THEN Answer(t, "ok", "Payment processed")
         ELSE Answer(t, "error", "Internal error")
    /\ UNCHANGED <<now, ledger, members, chat, sweep, remind, fsm>>

\* standard branch: datetime.utcnow() + timedelta(days=30 * months)
payment_expires(months) == now + Days(MONTH_DAYS * months)

\* standard branch: await db.add_subscription(..., activated_by="payment")
StdAddSubscription(t) ==
    /\ wh[t].pc = "std_addsub"
    /\ LET n == wh[t].n
           u == extract_user_id(n)
           months == get_plan_config[resolve_plan(amount_of(n))].months
       IN  /\ add_subscription(u, months, payment_expires(months), "payment", "")
           /\ log' = Logged(Event("sub", n.order_id, u, ""))
    /\ Goto(t, "std_invite")
    /\ UNCHANGED <<now, promocodes, payments, members, chat, sweep, remind, fsm>>

\* standard branch: await send_invite_to_user(...), which catches its own
\* Telegram errors
StdSendInvite(t) ==
    /\ wh[t].pc = "std_invite"
    /\ LET n == wh[t].n
           u == extract_user_id(n)
       IN  /\ wh' = [wh EXCEPT ![t].pc = "done", ![t].resp = "ok",
                               ![t].msg = "Payment processed"]
           /\ log' = Logged(Event("invite", <<>>, u, ""))
    /\ UNCHANGED <<now, ledger, members, chat, sweep, remind, fsm>>

\* a database call of the handler raises: nothing of that call is committed
\* and the except clause answers status error
WebhookDbError(t) ==
    /\ wh[t].pc \in WebhookDbCalls
    /\ Answer(t, "error", "Internal error")
    /\ UNCHANGED <<now, ledger, members, chat, sweep, remind, fsm>>

\* the branch of a recurring charge
AutoStep(t) ==
    \/ AutoGetPayment(t) \/ AutoAddPayment(t) \/ AutoAddSubscription(t) \/ AutoAccess(t)

\* the branch of a redelivered order
DupStep(t) == DupGetUser(t) \/ DupGetSubscription(t) \/ DupAccess(t)

\* the branch of a gift purchase, after its Payment row
GiftStep(t) == GiftCreatePromocode(t) \/ GiftNotify(t)

\* the branch of a standard purchase
StdStep(t) ==
    \/ StdGetPayment(t) \/ StdAddPayment(t) \/ StdAddSubscription(t) \/ StdSendInvite(t)

WebhookStep(t) == AutoStep(t) \/ DupStep(t) \/ GiftStep(t) \/ StdStep(t)

\* ----------------------------------------------------------- chat checkout
\* process_plan_selection: order artclub_<user>_<time> recorded as pending;
\* a second selection by the user in the same second raises on the unique
\* order_id and records nothing
Checkout(u, plan) ==
    /\ LET order == CheckoutOrder(u, now) IN
       payments' = IF payment_conflict(order) THEN payments
                   ELSE add_payment(u, order, get_plan_config[plan].price, plan,
                                    get_plan_config[plan].months, "pending")
    /\ UNCHANGED <<now, users, subscriptions, promocodes, members, wh, log, chat, sweep, remind, fsm>>

\* ------------------------------------------------------- promo redemption
\* str.upper() of the texts users send
Upper(text) ==
    CASE text = "free3"  -> "FREE3"
      [] text = "save50" -> "SAVE50"
      [] OTHER -> text

\* the reply-keyboard captions process_promo_code leaves to other handlers
MENU_BUTTONS == {"[Buy subscription]", "[Promo code]"}

\* the mapped columns of Promocode in models.py; promo.<name> raises
\* AttributeError for any other name
PromocodeColumns ==
    {"code", "discount_type", "discount_value", "duration_months", "max_uses",
     "used_count", "for_user_id", "is_gift", "valid_from", "valid_until",
     "is_active", "created_at", "created_by"}

\* message.from_user.username of a user
Username(u) == "user" \o Str(u)

\* process_promo_code: the check of a gift code's recipient, by handle first
\* and by id when no handle is stored
gift_check(promo, user_id) ==
    IF ~promo.is_gift THEN "ok"
    ELSE IF "for_username" \notin PromocodeColumns THEN "raise"
    ELSE IF promo.for_username /= ""
         THEN IF Username(user_id) /= promo.for_username THEN "wrong_user" ELSE "ok"
    ELSE IF ~Falsy(promo.for_user_id)
         THEN IF promo.for_user_id /= user_id THEN "wrong_user" ELSE "ok"
    ELSE "ok"

\* a handler that checks nothing but the existence of the code
validate_exists(row, user_id) == IF row = 0 THEN "not_found" ELSE "ok"

\* process_promo_code: the checks made on the row get_promocode returned, in
\* the order of the code; "ok" when the redemption goes on
validate(row, user_id) ==
    IF row = 0 THEN "not_found"
    ELSE LET promo == promocodes[row] IN
         IF ~promo.is_active THEN "inactive"
         ELSE IF promo.valid_until /= Null /\ promo.valid_until < now THEN "expired"
         ELSE IF ~Falsy(promo.max_uses) /\ promo.used_count >= promo.max_uses THEN "limit"
         ELSE gift_check(promo, user_id)

\* mutant: every percent code counts as free
is_free_promo_percent(promo) == promo.discount_type \in {"free", "percent"}

\* process_promo_code: a code that grants a subscription at no charge
is_free_promo(promo) ==
    \/ promo.discount_type = "free"
    \/ promo.discount_type = "percent" /\ promo.discount_value >= 100
    \/ promo.discount_type = "fixed" /\ promo.discount_value >= FIXED_FREE_THRESHOLD

\* mutant: months of 31 days
promo_expires_31(months) == now + Days(31 * months)

\* process_promo_code: datetime.utcnow() + timedelta(days=30 * duration_months)
promo_expires(months) == now + Days(MONTH_DAYS * months)

\* Database.use_promocode: used_count = used_count + 1 for the code, whatever
\* max_uses is; nothing when the code does not exist
use_promocode(code) ==
    promocodes' = [i \in 1..Len(promocodes) |->
                     IF promocodes[i].code = code
                     THEN [promocodes[i] EXCEPT !.used_count = @ + 1]
                     ELSE promocodes[i]]

Finish(r, outcome) == chat' = [chat EXCEPT ![r].pc = "done", ![r].outcome = outcome]

\* process_promo_code up to its first database call: a message of user u
\* arrives in state waiting_for_code; menu captions are not codes
RedeemStart(r, u, text) ==
    /\ chat[r].pc = "idle"
    /\ chat' = [chat EXCEPT ![r] =
                  IF text \in MENU_BUTTONS
                  THEN [pc |-> "done", user |-> u, text |-> text, outcome |-> "ignored"]
                  ELSE [pc |-> "get_promo", user |-> u, text |-> text, outcome |-> ""]]
    /\ UNCHANGED <<now, ledger, members, wh, sweep, log, remind, fsm>>

\* promo = await db.get_promocode(code), and the checks on what it returned
RedeemGetPromocode(r) ==
    /\ chat[r].pc = "get_promo"
    /\ LET verdict == validate(get_promocode(Upper(chat[r].text)), chat[r].user) IN
       IF verdict = "ok"
       THEN chat' = [chat EXCEPT ![r].pc = "get_user"]
       ELSE Finish(r, verdict)
    /\ UNCHANGED <<now, ledger, members, wh, sweep, log, remind, fsm>>

\* user = await db.get_user(...); a code that is not free is only announced
\* as a discount
RedeemGetUser(r) ==
    /\ chat[r].pc = "get_user"
    /\ LET promo == promocodes[get_promocode(Upper(chat[r].text))] IN
       IF is_free_promo(promo)
       THEN chat' = [chat EXCEPT ![r].pc = "add_sub"]
       ELSE Finish(r, "discount")
    /\ UNCHANGED <<now, ledger, members, wh, sweep, log, remind, fsm>>

\* await db.add_subscription(..., activated_by="promo", promocode=code)
RedeemAddSubscription(r) ==
    /\ chat[r].pc = "add_sub"
    /\ LET code == Upper(chat[r].text)
           months == promocodes[get_promocode(code)].duration_months
       IN  add_subscription(chat[r].user, months, promo_expires(months), "promo", code)
    /\ chat' = [chat EXCEPT ![r].pc = "use_promo"]
    /\ UNCHANGED <<now, promocodes, payments, members, wh, sweep, log, remind, fsm>>

\* await db.use_promocode(code)
RedeemUsePromocode(r) ==
    /\ chat[r].pc = "use_promo"
    /\ use_promocode(Upper(chat[r].text))
    /\ chat' = [chat EXCEPT ![r].pc = "invite"]
    /\ UNCHANGED <<now, users, subscriptions, payments, members, wh, sweep, log, remind, fsm>>

\* await send_invite_to_user(...) and the confirmation message
RedeemInvite(r) ==
    /\ chat[r].pc = "invite"
    /\ Finish(r, "granted")
    /\ log' = Logged(Event("invite", <<>>, chat[r].user, ""))
    /\ UNCHANGED <<now, ledger, members, wh, sweep, remind, fsm>>

RedeemStep(r) ==
    \/ RedeemGetPromocode(r) \/ RedeemGetUser(r) \/ RedeemAddSubscription(r)
    \/ RedeemUsePromocode(r) \/ RedeemInvite(r)

\* ------------------------------------------------------------ revoke-pass
\* get_expired_subscribers: is_subscribed and subscription_until < now (a
\* NULL expiry never compares), as the rows read at that moment
get_expired_subscribers ==
    LET all == [u \in 1..NumUsers |->
                  [id |-> u, subscription_until |-> users[u].subscription_until]]
        Expired(row) == /\ users[row.id].is_subscribed
                        /\ row.subscription_until /= Null
                        /\ row.subscription_until < now
    IN  SelectSeq(all, Expired)

\* mutant: one more day of grace
in_grace_longer(row) == DaysBetween(now, row.subscription_until) <= GRACE_DAYS

\* check_expired_subscriptions: still inside the days left for auto-renewal
in_grace(row) == DaysBetween(now, row.subscription_until) < GRACE_DAYS

\* the loop moves to the next user read, or the pass ends
NextUser == IF sweep.i < Len(sweep.list)
            THEN [sweep EXCEPT !.pc = "visit", !.i = @ + 1]
            ELSE [sweep EXCEPT !.pc = "idle", !.list = <<>>, !.i = 0]

\* the scheduler fires check_expired_subscriptions, which reads the expired
\* subscribers and returns when there are none
SweepQuery ==
    /\ sweep.pc = "idle"
    /\ sweep.pass < MaxPasses
    /\ LET found == get_expired_subscribers IN
       sweep' = IF found = <<>>
                THEN [sweep EXCEPT !.pass = @ + 1]
                ELSE [pc |-> "visit", list |-> found, i |-> 1, pass |-> sweep.pass + 1]
    /\ UNCHANGED <<now, ledger, members, wh, chat, log, remind, fsm>>

\* a pass that gives up at the first removal Telegram refuses
SweepVisitAborts ==
    /\ sweep.pc = "visit"
    /\ LET row == sweep.list[sweep.i] IN
       IF in_grace(row)
       THEN /\ sweep' = NextUser
            /\ UNCHANGED <<members, log>>
       ELSE \E removed \in BOOLEAN :
              /\ members' = IF removed THEN members \ {row.id} ELSE members
              /\ log' = Logged(Event("remove", <<>>, row.id, ""))
              /\ sweep' = IF removed THEN [sweep EXCEPT !.pc = "update"]
                          ELSE [sweep EXCEPT !.pc = "idle", !.list = <<>>, !.i = 0]
    /\ UNCHANGED <<now, ledger, wh, chat, remind, fsm>>

\* one user of the list: skipped inside the grace days, otherwise
\* await remove_user_from_channel (ban, unban), whose Telegram errors are
\* caught inside it
SweepVisit ==
    /\ sweep.pc = "visit"
    /\ LET row == sweep.list[sweep.i] IN
       IF in_grace(row)
       THEN /\ sweep' = NextUser
            /\ UNCHANGED <<members, log, remind, fsm>>
       ELSE /\ \E removed \in BOOLEAN :
                 members' = IF removed THEN members \ {row.id} ELSE members
            /\ log' = Logged(Event("remove", <<>>, row.id, ""))
            /\ sweep' = [sweep EXCEPT !.pc = "update"]
    /\ UNCHANGED <<now, ledger, wh, chat, remind, fsm>>

\* await db.update_subscription_status(user_id=user.id, is_subscribed=False)
SweepUpdate ==
    /\ sweep.pc = "update"
    /\ update_subscription_status(sweep.list[sweep.i].id, FALSE, Null)
    /\ sweep' = [sweep EXCEPT !.pc = "notify"]
    /\ UNCHANGED <<now, subscriptions, promocodes, payments, members, wh, chat, log, remind, fsm>>

\* a pass that gives up when a lapsed notice cannot be sent
SweepNotifyAborts ==
    /\ sweep.pc = "notify"
    /\ \E sent \in BOOLEAN :
         /\ log' = IF sent THEN Logged(Event("lapsed", <<>>, sweep.list[sweep.i].id, ""))
                   ELSE log
         /\ sweep' = IF sent THEN NextUser
                     ELSE [sweep EXCEPT !.pc = "idle", !.list = <<>>, !.i = 0]
    /\ UNCHANGED <<now, ledger, members, wh, chat, remind, fsm>>

\* the lapsed notice: get_text and send_message, a failure only logged
SweepNotify ==
    /\ sweep.pc = "notify"
    /\ \E sent \in BOOLEAN :
         log' = IF sent THEN Logged(Event("lapsed", <<>>, sweep.list[sweep.i].id, ""))
                ELSE log
    /\ sweep' = NextUser
    /\ UNCHANGED <<now, ledger, members, wh, chat, remind, fsm>>

SweepStep == SweepVisit \/ SweepUpdate \/ SweepNotify

\* ---------------------------------------------------------- reminder-pass
\* get_active_subscribers: the users with is_subscribed, as read at that moment
get_active_subscribers ==
    LET all == [u \in 1..NumUsers |->
                  [id |-> u, subscription_until |-> users[u].subscription_until]]
        Active(row) == users[row.id].is_subscribed
    IN  SelectSeq(all, Active)

\* mutant: the reminder also goes out on the days after the third
remind_due_late(row) ==
    /\ row.subscription_until /= Null
    /\ DaysBetween(row.subscription_until, now) <= REMIND_DAYS

\* send_expiration_reminders: the user has an expiry and
\* (subscription_until - utcnow()).days == 3
remind_due(row) ==
    /\ row.subscription_until /= Null
    /\ DaysBetween(row.subscription_until, now) = REMIND_DAYS

\* the scheduler fires send_expiration_reminders, which reads the subscribers;
\* the two daily jobs run hours apart
RemindQuery ==
    /\ remind.pc = "idle"
    /\ sweep.pc = "idle"
    /\ remind.pass < MaxPasses
    /\ LET found == get_active_subscribers IN
       remind' = IF found = <<>>
                 THEN [remind EXCEPT !.pass = @ + 1]
                 ELSE [pc |-> "visit", list |-> found, i |-> 1, pass |-> remind.pass + 1]
    /\ UNCHANGED <<now, ledger, members, wh, chat, sweep, log, fsm>>

\* one subscriber of the list: the reminder is sent when it is due, a
\* Telegram error is only logged (logger.warning, the event "unsent")
RemindVisit ==
    /\ remind.pc = "visit"
    /\ LET row == remind.list[remind.i] IN
       IF remind_due(row)
       THEN \E sent \in BOOLEAN :
              log' = Logged(Event(IF sent THEN "reminder" ELSE "unsent",
                                  <<>>, row.id, ""))
       ELSE log' = log
    /\ remind' = IF remind.i < Len(remind.list)
                 THEN [remind EXCEPT !.i = @ + 1]
                 ELSE [remind EXCEPT !.pc = "idle", !.list = <<>>, !.i = 0]
    /\ UNCHANGED <<now, ledger, members, wh, chat, sweep, fsm>>

\* ----------------------------------------------------------------- /start
\* mutant: a registration that starts the user over
add_user_reset(user_id) ==
    [users EXCEPT ![user_id] = [is_subscribed |-> FALSE, subscription_until |-> Null,
                                last_activity |-> now]]

\* mutant: a registration that writes the row's defaults over the expiry
add_user_defaults(user_id) ==
    [users EXCEPT ![user_id].subscription_until = Null, ![user_id].last_activity = now]

\* Database.add_user for a user who exists: the profile fields and
\* last_activity are written, nothing else
add_user(user_id) == [users EXCEPT ![user_id].last_activity = now]

\* ---------------------------------------------------------- conversations
\* is_admin: ADMIN_IDS names the first user
is_admin(user_id) == user_id = 1

\* FSMContext.get_state() outside a conversation
NoState == "None"

\* the keys the handlers store with state.update_data
DataKeys ==
    {"editing_text_key", "recipient", "discount_type", "discount_value",
     "duration_months", "target", "text"}

\* state data after state.clear()
NoData == [k \in DataKeys |-> Absent]

\* the FSM storage of one user (state and data), the text the user last
\* saved with set_text, and the last message of the user: its text, the
\* state it arrived in, its handler
IdleFsm ==
    [state |-> NoState, data |-> NoData, bot_text |-> Absent,
     text |-> Absent, was |-> NoState, handler |-> ""]

\* The message handlers that can take the texts of the model, in the order
\* the dispatcher tries them: admin.router before user.router, and
\* registration order inside a router.  A missing filter is Absent; a handler
\* registered with a state takes every message that arrives in that state.
MessageHandlers == <<
    [name |-> "save_edited_text", text |-> Absent,
     state |-> "TextEditState:waiting_for_new_text"],
    [name |-> "receive_gift_recipient", text |-> Absent,
     state |-> "GiftCreationState:waiting_for_recipient"],
    [name |-> "receive_gift_duration", text |-> Absent,
     state |-> "GiftCreationState:waiting_for_duration"],
    [name |-> "set_promo_discount", text |-> Absent,
     state |-> "PromoCreationState:waiting_for_discount"],
    [name |-> "set_promo_duration", text |-> Absent,
     state |-> "PromoCreationState:waiting_for_duration"],
    [name |-> "finalize_promo_creation", text |-> Absent,
     state |-> "PromoCreationState:waiting_for_max_uses"],
    [name |-> "receive_broadcast_content", text |-> Absent,
     state |-> "BroadcastState:waiting_for_content"],
    [name |-> "cmd_start", text |-> "/start", state |-> Absent],
    [name |-> "activate_promo_start", text |-> "[Promo code]", state |-> Absent],
    [name |-> "process_promo_code", text |-> Absent,
     state |-> "PromoState:waiting_for_code"] >>

\* the texts for which input_text.startswith("@") holds
AtNames == {"@anna"}

\* the menu_buttons lists of the admin handlers: the captions of both keyboards
ADMIN_MENU_BUTTONS == MENU_BUTTONS \cup {"[Exit admin]"}

\* Dispatcher: the first handler whose filters pass gets the message, and
\* the message counts as handled whatever the handler then does
handler_for(text, state) ==
    LET Passes(i) == /\ MessageHandlers[i].text \in {Absent, text}
                     /\ MessageHandlers[i].state \in {Absent, state}
        hits == { i \in DOMAIN MessageHandlers : Passes(i) }
    IN  IF hits = {} THEN "unhandled"
        ELSE MessageHandlers[CHOOSE i \in hits : \A j \in hits : i <= j].name

\* the promo code finalize_promo_creation inserts from the collected data
created_promocode(data, max_uses, created_by) ==
    promocode_row("AUTOCODE", data["discount_type"],
                  IF data["discount_value"] = "100" THEN 100
                  ELSE ParseInt(data["discount_value"]),
                  ParseInt(data["duration_months"]),
                  IF max_uses = 0 THEN Null ELSE max_uses, created_by, FALSE, Null)

\* One text message of user u, through the dispatcher and the whole handler.
\* save_edited_text stores any text; the gift and promo handlers take a
\* number (or @username) and answer an error otherwise, leaving the state;
\* receive_gift_duration raises on create_promocode(for_username=...), before
\* state.clear(); a handler that returns on a menu caption has still handled
\* the message.  Codes that exist are redeemed by RedeemStart.
DialogMessage(u, text) ==
    LET state   == fsm[u].state
        h       == handler_for(text, state)
        seen    == [fsm[u] EXCEPT !.text = text, !.was = state, !.handler = h]
        cleared == [seen EXCEPT !.state = NoState, !.data = NoData]
        store(key, next) == [seen EXCEPT !.state = next, !.data[key] = text]
        number  == ParseInt(text) /= Null
        menu    == text \in ADMIN_MENU_BUTTONS
        creates == h = "finalize_promo_creation" /\ is_admin(u) /\ ~menu /\ number
    IN  /\ h = "process_promo_code" => get_promocode(Upper(text)) = 0
        /\ creates => Len(promocodes) < MaxCreated
        /\ fsm' = [fsm EXCEPT ![u] =
             CASE h = "cmd_start" -> cleared
               [] h = "activate_promo_start" ->
                      [seen EXCEPT !.state = "PromoState:waiting_for_code"]
               [] h \in {"process_promo_code", "unhandled"} -> seen
               [] ~is_admin(u) -> seen
               [] h = "save_edited_text" -> [cleared EXCEPT !.bot_text = text]
               [] h = "receive_gift_recipient" ->
                      IF number \/ text \in AtNames
                      THEN store("recipient", "GiftCreationState:waiting_for_duration") ELSE seen
               [] h = "receive_gift_duration" -> seen
               [] h = "set_promo_discount" ->
                      IF ~menu /\ number
                      THEN store("discount_value",
                                 "PromoCreationState:waiting_for_duration") ELSE seen
               [] h = "set_promo_duration" ->
                      IF ~menu /\ number
                      THEN store("duration_months",
                                 "PromoCreationState:waiting_for_max_uses") ELSE seen
               [] h = "finalize_promo_creation" -> IF creates THEN cleared ELSE seen
               [] h = "receive_broadcast_content" ->
                      IF menu THEN seen
                      ELSE store("text", "BroadcastState:waiting_for_confirmation")]
        /\ users' = IF h = "cmd_start" THEN add_user(u) ELSE users
        /\ promocodes' = IF creates
                         THEN Append(promocodes,
                                     created_promocode(fsm[u].data, ParseInt(text), u))
                         ELSE promocodes
        /\ UNCHANGED <<now, subscriptions, payments, members, wh, chat, sweep, remind,
                       log>>

\* cmd_start: the conversation state is cleared and the user registered
CmdStart(u) == DialogMessage(u, "/start")

\* the inline buttons that open, confirm or cancel a conversation
CallbackData ==
    {"edit_text:welcome", "admin:create_gift", "promo_type:free", "promo_type:percent",
     "broadcast:all", "broadcast:confirm", "broadcast:cancel", "cancel"}

\* One callback query of user u.  The admin callbacks return at once for
\* anyone else; broadcast:confirm sends the stored content and clears.
DialogCallback(u, data) ==
    LET seen    == [fsm[u] EXCEPT !.text = Absent, !.was = fsm[u].state, !.handler = data]
        cleared == [seen EXCEPT !.state = NoState, !.data = NoData]
        open(state, key, value) == [seen EXCEPT !.state = state, !.data[key] = value]
    IN  /\ fsm' = [fsm EXCEPT ![u] =
             CASE data = "cancel" -> cleared
               [] ~is_admin(u) -> seen
               [] data = "edit_text:welcome" ->
                      open("TextEditState:waiting_for_new_text", "editing_text_key", "welcome")
               [] data = "admin:create_gift" ->
                      [seen EXCEPT !.state = "GiftCreationState:waiting_for_recipient"]
               [] data = "promo_type:free" ->
                      [open("PromoCreationState:waiting_for_duration", "discount_type",
                            "free") EXCEPT !.data["discount_value"] = "100"]
               [] data = "promo_type:percent" ->
                      open("PromoCreationState:waiting_for_discount", "discount_type",
                           "percent")
               [] data = "broadcast:all" ->
                      open("BroadcastState:waiting_for_content", "target", "all")
               [] data \in {"broadcast:confirm", "broadcast:cancel"} -> cleared]
        /\ UNCHANGED <<now, ledger, members, wh, chat, sweep, remind, log>>

\* ------------------------------------------------------------------ clock
Tick ==
    /\ now < StartTime + MaxTicks
    /\ now' = now + 1
    /\ UNCHANGED <<ledger, members, wh, chat, sweep, log, remind, fsm>>

\* ------------------------------------------------------------ initial state
UserRow(flag, until) ==
    [is_subscribed |-> flag, subscription_until |-> until, last_activity |-> 0]

\* a user of the bot: never subscribed, or subscribed until a given time by
\* scripts/migrate_from_bothelp.py before the bot went live
UserStates(expiries) == {UserRow(FALSE, Null)} \cup {UserRow(TRUE, e) : e \in expiries}

\* migrate_from_bothelp.py: the history row of a migrated subscriber
MigratedRow(u, until) ==
    [user_id |-> u, duration_months |-> 1, started_at |-> 0, expires_at |-> until,
     activated_by |-> "migration", promocode |-> ""]

\* the subscriptions table that goes with a users table
HistoryOf(us) ==
    LET all == [u \in 1..NumUsers |-> MigratedRow(u, us[u].subscription_until)]
        Subscribed(r) == us[r.user_id].is_subscribed
    IN  SelectSeq(all, Subscribed)

\* migrated subscribers are in the channel, new users are not
Subscribers(us) == { u \in DOMAIN us : us[u].is_subscribed }

IdleChat == [pc |-> "idle", user |-> 0, text |-> "", outcome |-> ""]

IdleSweep == [pc |-> "idle", list |-> <<>>, i |-> 0, pass |-> 0]

IdleRemind == [pc |-> "idle", list |-> <<>>, i |-> 0, pass |-> 0]

IdleTask == [pc |-> "idle", n |-> NoNote, resp |-> "", msg |-> ""]

InitCommon ==
    /\ now = StartTime
    /\ wh = [t \in WebhookTasks |-> IdleTask]
    /\ chat = [r \in ChatTasks |-> IdleChat]
    /\ sweep = IdleSweep
    /\ remind = IdleRemind
    /\ fsm = [u \in Users |-> IdleFsm]
    /\ log = EmptyBag
    /\ payments = <<>>

\* webhook deliveries and checkouts against users who are new or subscribed
InitWebhook ==
    /\ InitCommon
    /\ users \in [Users -> UserStates({StartTime + Days(1)})]
    /\ subscriptions = HistoryOf(users)
    /\ promocodes = <<>>
    /\ members = Subscribers(users)

NextWebhook ==
    \/ \E t \in WebhookTasks, n \in Notifications : Receive(t, n)
    \/ \E t \in WebhookTasks : WebhookStep(t)
    \/ \E t \in WebhookTasks : WebhookDbError(t)
    \/ \E u \in Users, plan \in CheckoutPlans : Checkout(u, plan)

SpecWebhook == InitWebhook /\ [][NextWebhook]_vars

\* promo codes in the table: a free code for one use, a 50 % discount, a
\* discount of 500, and a gift bound to the last user
PromoTable ==
    << promocode_row("FREE3", "free", 100, 3, 1, 0, FALSE, Null),
       promocode_row("SAVE50", "percent", 50, 1, Null, 0, FALSE, Null),
       promocode_row("MINUS500", "fixed", 500, 1, Null, 0, FALSE, Null),
       promocode_row("GIFT_100001", "free", 100, 1, 1, 0, TRUE, NumUsers) >>

\* what users type as a promo code
PromoTexts == {"free3", "SAVE50", "MINUS500", "GIFT_100001", "NOPE", "[Promo code]"}

\* promo messages of two chats handled concurrently
InitPromo ==
    /\ InitCommon
    /\ users \in [Users -> UserStates({StartTime + Days(1)})]
    /\ subscriptions = HistoryOf(users)
    /\ promocodes = PromoTable
    /\ members = Subscribers(users)

NextPromo ==
    \/ \E r \in ChatTasks, u \in Users, text \in PromoTexts : RedeemStart(r, u, text)
    \/ \E r \in ChatTasks : RedeemStep(r)

SpecPromo == InitPromo /\ [][NextPromo]_vars

\* free codes for every duration of the plan table
GrantTable ==
    << promocode_row("FREE1", "free", 100, 1, Null, 0, FALSE, Null),
       promocode_row("FREE3", "free", 100, 3, Null, 0, FALSE, Null),
       promocode_row("FREE6", "percent", 100, 6, Null, 0, FALSE, Null),
       promocode_row("FREE12", "fixed", FIXED_FREE_THRESHOLD, 12, Null, 0, FALSE, Null) >>

\* standard purchases of every plan, charged at the plan's price
GrantNotes ==
    { Note(StdOrder(1), "success", <<"Card">>, "1", Absent, get_plan_config[k].price) :
        k \in DOMAIN get_plan_config }

\* one payment and one free code of any duration, at any time of the clock
InitGrant ==
    /\ InitCommon
    /\ users \in [Users -> UserStates({StartTime + Days(1)})]
    /\ subscriptions = HistoryOf(users)
    /\ promocodes = GrantTable
    /\ members = Subscribers(users)

NextGrant ==
    \/ \E n \in GrantNotes : Receive("w1", n)
    \/ StdStep("w1")
    \/ \E u \in Users, i \in 1..Len(GrantTable) : RedeemStart("r1", u, GrantTable[i].code)
    \/ RedeemStep("r1")
    \/ Tick

SpecGrant == InitGrant /\ [][NextGrant]_vars

\* expiry dates around the end of the grace days, just lapsed, and still ahead
SweepExpiries ==
    { StartTime - Days(GRACE_DAYS) + d : d \in {0 - 1, 0, 1} }
        \cup {StartTime - 1, StartTime + 1}

InitSweep ==
    /\ InitCommon
    /\ users \in [Users -> UserStates(SweepExpiries)]
    /\ subscriptions = HistoryOf(users)
    /\ promocodes = <<>>
    /\ members = Subscribers(users)

\* the daily revoke-pass with no renewal arriving
NextSweep ==
    \/ SweepQuery
    \/ SweepStep
    \/ Tick

SpecSweep == InitSweep /\ [][NextSweep]_vars

\* revoke-passes run back to back while the clock stands still
NextRevokeTwice ==
    \/ SweepQuery
    \/ SweepStep

SpecRevokeTwice == InitSweep /\ [][NextRevokeTwice]_vars

\* the same with the job's coroutine scheduled until it returns: every
\* await of a pass comes back, with a result or an exception
SpecRevokeFair == SpecRevokeTwice /\ WF_vars(SweepStep)

\* what renews user 1 while a revoke-pass is under way
RenewalNotes ==
    { Note(StdOrder(1), "success", <<"Card">>, "1", Absent, 3500),
      Note(AutoOrder(1), Absent, <<"Auto">>, "1", Absent, 3500) }

InitRace ==
    /\ InitCommon
    /\ users \in [Users -> UserStates({StartTime - Days(GRACE_DAYS), StartTime + 1})]
    /\ subscriptions = HistoryOf(users)
    /\ promocodes = GrantTable
    /\ members = Subscribers(users)

\* a revoke-pass together with a payment, a recurring charge or a free code
NextRace ==
    \/ SweepQuery
    \/ SweepStep
    \/ \E n \in RenewalNotes : Receive("w1", n)
    \/ StdStep("w1")
    \/ AutoStep("w1")
    \/ RedeemStart("r1", 1, "FREE1")
    \/ RedeemStep("r1")

SpecRace == InitRace /\ [][NextRace]_vars

\* first purchases of every plan by every user, with and without the
\* customer_extra field of the checkout link
PurchaseNotes ==
    { Note(CheckoutOrder(u, StartTime), "success", <<"Card">>,
           IF extra = "self" THEN Str(u) ELSE extra, Absent, get_plan_config[k].price) :
        u \in Users, k \in DOMAIN get_plan_config, extra \in {Absent, "self"} }

\* one notification handled with no failure and nothing else going on
NextPurchase ==
    \/ \E n \in PurchaseNotes : Receive("w1", n)
    \/ StdStep("w1")
    \/ Tick

SpecPurchase == InitGrant /\ [][NextPurchase]_vars

\* everything that touches a user: notifications of every kind, one of
\* them not successful, the chat checkout, a free and a discount code, both
\* daily passes and /start
LifecycleNotes ==
    Notifications \cup {Note(StdOrder(1), "fail", <<"Card">>, "1", Absent, 9450)}

InitLifecycle ==
    /\ InitCommon
    /\ users \in [Users -> UserStates({StartTime - Days(GRACE_DAYS),
                                       StartTime + Days(REMIND_DAYS)})]
    /\ subscriptions = HistoryOf(users)
    /\ promocodes = PromoTable
    /\ members = Subscribers(users)

\* one day: user 1 buys, redeems and restarts, user 2 is charged by
\* recurring payment; each daily job runs once, hours apart from the other
NextLifecycle ==
    \/ \E n \in LifecycleNotes : Receive("w1", n)
    \/ WebhookStep("w1")
    \/ Checkout(1, "1_month")
    \/ \E text \in {"FREE3", "SAVE50"} : RedeemStart("r1", 1, text)
    \/ RedeemStep("r1")
    \/ remind.pc = "idle" /\ sweep.pass = 0 /\ SweepQuery
    \/ SweepStep
    \/ remind.pass = 0 /\ RemindQuery
    \/ RemindVisit
    \/ CmdStart(1)

SpecLifecycle == InitLifecycle /\ [][NextLifecycle]_vars

\* reconciliation of one notification of user 1: a standard purchase, a gift
\* purchase or a recurring charge, with any payment status (missing and
\* empty included) and a sum that is a plan's price, no plan's price, or missing
ReconcileNotes ==
    { Note(kind[1], status, kind[2], "1", Absent, sum) :
        kind \in { <<StdOrder(1), <<"Card">>>>, <<GiftOrder(1), <<"Card">>>>,
                   <<AutoOrder(1), <<"Avtoplatezh">>>> },
        status \in {Absent, "", "success", "fail", "pending"},
        sum \in {3500, 9450, 5000, Null} }

NextReconcile ==
    \/ \E n \in ReconcileNotes : Receive("w1", n)
    \/ StdStep("w1")
    \/ GiftStep("w1")
    \/ AutoStep("w1")
    \/ Tick

SpecReconcile == InitRace /\ [][NextReconcile]_vars

\* a gift purchase of user 1 and, in two chats, redemptions of the codes a
\* purchase can issue and of an ordinary free code
GiftNotes ==
    { Note(GiftOrder(1), "success", <<"Card">>, "1", Absent, sum) : sum \in {3500, 9450} }

NextGift ==
    \/ \E n \in GiftNotes : Receive("w1", n)
    \/ StdGetPayment("w1")
    \/ StdAddPayment("w1")
    \/ GiftStep("w1")
    \/ \E r \in ChatTasks, u \in Users, text \in GiftCodes \cup {"FREE1"} :
           RedeemStart(r, u, text)
    \/ \E r \in ChatTasks : RedeemStep(r)

SpecGift == InitGrant /\ [][NextGift]_vars

\* validation: the table holds one code, which may be inactive, past or
\* before its valid_until, with or without a limit, used or not, a gift or
\* not, bound to the last user or to nobody, free or a discount
ValidateRows ==
    { [promocode_row("CODE", dtype, 50, 1, max_uses, 0, gift, for_user_id)
          EXCEPT !.is_active = active, !.valid_until = valid_until,
                 !.used_count = used_count] :
        dtype \in {"free", "percent"}, max_uses \in {Null, 1}, gift \in BOOLEAN,
        for_user_id \in {Null, NumUsers}, active \in BOOLEAN,
        valid_until \in {Null, StartTime - 1, StartTime + 1}, used_count \in {0, 1} }

InitValidate ==
    /\ InitCommon
    /\ users = [u \in Users |-> UserRow(FALSE, Null)]
    /\ subscriptions = <<>>
    /\ promocodes \in { <<row>> : row \in ValidateRows }
    /\ members = {}

\* one message in the promo code conversation: the code or an unknown text
NextValidate ==
    \/ \E u \in Users, text \in {"CODE", "NOPE"} : RedeemStart("r1", u, text)
    \/ RedeemStep("r1")

SpecValidate == InitValidate /\ [][NextValidate]_vars

\* the reminder job alone, fired by its cron trigger once a day: the passes
\* run at StartTime, a day later, and so on; subscribers come with two to
\* five whole days left at the first pass, early or late in the day
RemindExpiries ==
    { StartTime + Days(d) + h : d \in (REMIND_DAYS - 1)..(REMIND_DAYS + 2), h \in {0, 1} }

\* CronTrigger(hour=18, minute=0): the time of the next reminder-pass
remind_time == StartTime + Days(remind.pass)

InitRemind ==
    /\ InitCommon
    /\ users \in [Users -> UserStates(RemindExpiries)]
    /\ subscriptions = HistoryOf(users)
    /\ promocodes = PromoTable
    /\ members = Subscribers(users)

NextRemind ==
    \/ now = remind_time /\ RemindQuery
    \/ RemindVisit
    \/ now /= remind_time /\ remind.pc = "idle" /\ Tick

SpecRemind == InitRemind /\ [][NextRemind]_vars

\* classification of one success notification of user 1: a card payment or
\* a recurring charge by its payment type, with the nested subscription
\* metadata missing or saying purchase ("0") or automatic charge ("1")
ClassifyNotes ==
    { [Note(order, "success", ptype, "1", Absent, 3500)
          EXCEPT !.subscription_autopayment = flag] :
        order \in {StdOrder(1), AutoOrder(1)},
        ptype \in {<<"Card">>, <<"Avtoplatezh">>, <<"Auto", "Card">>},
        flag \in {Absent, "0", "1"} }

NextClassify ==
    \/ \E n \in ClassifyNotes : Receive("w1", n)
    \/ StdStep("w1")
    \/ AutoStep("w1")

SpecClassify == InitRace /\ [][NextClassify]_vars

\* CronTrigger(hour=10, minute=0): the time of the next revoke-pass
sweep_time == StartTime + Days(sweep.pass)

\* the revoke job fired by its cron trigger once a day, the clock running
\* between the passes, and a recurring charge of user 1 arriving at any time
NextRevokeDaily ==
    \/ now = sweep_time /\ SweepQuery
    \/ SweepStep
    \/ now /= sweep_time /\ sweep.pc = "idle" /\ Tick
    \/ Receive("w1", Note(AutoOrder(1), Absent, <<"Auto">>, "1", Absent, 3500))
    \/ AutoStep("w1")

\* the scheduler keeps firing the job, time passes, and every await of a
\* pass comes back
SpecRevokeDaily ==
    /\ InitSweep /\ [][NextRevokeDaily]_vars
    /\ WF_vars(now = sweep_time /\ SweepQuery)
    /\ WF_vars(SweepStep)
    /\ WF_vars(now /= sweep_time /\ sweep.pc = "idle" /\ Tick)

\* conversations: the admin, who is a user as well, presses buttons and sends
\* texts in any order
DialogTexts == {"/start", "3", "@anna", "[Promo code]"}

InitDialog ==
    /\ InitCommon
    /\ users = [u \in Users |-> UserRow(FALSE, Null)]
    /\ subscriptions = <<>>
    /\ promocodes = <<>>
    /\ members = {}

NextDialog ==
    \/ \E text \in DialogTexts : DialogMessage(1, text)
    \/ \E data \in CallbackData : DialogCallback(1, data)

SpecDialog == InitDialog /\ [][NextDialog]_vars

\* identity extraction: one successful card payment of 3500 whose user_id,
\* customer_extra, order_id and tg_user_id fields are each missing, malformed
\* or the id of a user, independently of one another
IdFields == {Absent, "x"} \cup { Str(u) : u \in Users }

IdentityOrders ==
    {<<"12345">>} \cup { <<"artclub", id, "1700000000">> : id \in IdFields \ {Absent} }

IdentityNotes ==
    { [Note(order, "success", <<"Card">>, extra, tg, 3500) EXCEPT !.user_id = id] :
        order \in IdentityOrders, id \in IdFields, extra \in IdFields, tg \in IdFields }

NextIdentity ==
    \/ \E n \in IdentityNotes : Receive("w1", n)
    \/ StdStep("w1")

SpecIdentity == InitGrant /\ [][NextIdentity]_vars

\* ------------------------------------------------------------------ claims
\* orders whose notification passes the status filter with a user id
SuccessOrders ==
    { n.order_id : n \in { m \in Notifications :
        ~invalid_order_id(m) /\ ~Falsy(extract_user_id(m)) /\ ~not_successful(m) } }

PaymentRows(order) == { i \in 1..Len(payments) : payments[i].order_id = order }

\* subscription rows and gift codes the webhook produced for an order
Effects(order) ==
    LET evs == { ev \in BagToSet(log) : ev.e \in {"sub", "gift"} /\ ev.order = order }
        RECURSIVE Sum(_)
        Sum(S) == IF S = {} THEN 0
                  ELSE LET ev == CHOOSE x \in S : TRUE IN Count(ev) + Sum(S \ {ev})
    IN  Sum(evs)

\* requests for an order that were answered with status ok
OkAcks(order) ==
    Cardinality({ t \in WebhookTasks :
        wh[t].pc = "done" /\ wh[t].resp = "ok" /\ wh[t].n.order_id = order })

\* C1: once a success notification of an order has been delivered twice and
\* answered ok both times, there is exactly one Payment row for the order;
\* and an order never has more than one Subscription row or gift code
C1_TwiceIsOnce ==
    \A o \in SuccessOrders :
        /\ OkAcks(o) >= 2 => Cardinality(PaymentRows(o)) = 1
        /\ Effects(o) <= 1

C1_Witness ==
    \E o \in SuccessOrders :
        /\ OkAcks(o) >= 2
        /\ Effects(o) = 1
        /\ \E i \in PaymentRows(o) : payments[i].status = "success"

\* C2: with two tasks racing on one order, no order ever has two Payment
\* rows, and whenever a task is answered by the unique-order_id conflict the
\* order's subscription or gift code comes from the other task alone
C2_OnePaymentPerOrder ==
    /\ \A i, j \in 1..Len(payments) :
          payments[i].order_id = payments[j].order_id => i = j
    /\ \A o \in SuccessOrders : Effects(o) <= Cardinality(PaymentRows(o))

\* both tasks passed the existence check and one has inserted: the other is
\* about to hit the conflict
C2_Witness ==
    \E t1, t2 \in WebhookTasks :
        /\ t1 /= t2
        /\ wh[t1].n = wh[t2].n
        /\ wh[t1].pc \in {"std_addpay", "auto_addpay"}
        /\ wh[t2].pc \in {"std_addsub", "gift_create", "auto_addsub"}
        /\ payment_conflict(wh[t1].n.order_id)

\* C4 as claimed: only a Payment row in status success sends a request down
\* the duplicate path, and a success notification answered ok for an order
\* that has a Payment row (pending rows of the chat checkout included)
\* leaves that row in status success, a Subscription row for the order and
\* the user subscribed
C4_PendingIsFulfilled ==
    \A t \in WebhookTasks :
        LET n == wh[t].n
            rows == PaymentRows(n.order_id)
        IN  /\ wh[t].pc \in {"dup_user", "dup_sub", "dup_access"}
                => \A i \in rows : payments[i].status = "success"
            /\ (/\ wh[t].pc = "done" /\ wh[t].resp = "ok"
                /\ n.order_id \in SuccessOrders /\ ~is_gift(n) /\ ~is_autopayment(n)
                /\ rows /= {})
               => /\ \A i \in rows : payments[i].status = "success"
                  /\ Effects(n.order_id) >= 1
                  /\ users[extract_user_id(n)].is_subscribed

\* C5 as claimed: a Payment in status success always has its Subscription
\* row, or its gift code for a gift order
C5_SuccessHasGrant ==
    \A i \in 1..Len(payments) :
        payments[i].status = "success" => Effects(payments[i].order_id) >= 1

\* Subscription rows that name a promo code
PromoRows(code) == { i \in 1..Len(subscriptions) : subscriptions[i].promocode = code }

\* redemptions of a code that ended with the given outcome
Outcomes(code, outcome) ==
    { r \in ChatTasks : chat[r].pc = "done" /\ Upper(chat[r].text) = code
                        /\ chat[r].outcome = outcome }

\* C3 as claimed: a code with max_uses set is never used more often than
\* max_uses, by its counter, by the Subscription rows that name it, and by
\* the redemptions granted
C3_QuotaRespected ==
    \A i \in 1..Len(promocodes) :
        LET promo == promocodes[i] IN
        ~Falsy(promo.max_uses) =>
            /\ promo.used_count <= promo.max_uses
            /\ Cardinality(PromoRows(promo.code)) <= promo.max_uses
            /\ Cardinality(Outcomes(promo.code, "granted")) <= promo.max_uses

\* a redemption by a user the code is bound to someone else
Mismatched(task) ==
    LET row == get_promocode(Upper(task.text)) IN
    /\ task.pc /= "idle"
    /\ row /= 0
    /\ promocodes[row].is_gift
    /\ ~Falsy(promocodes[row].for_user_id)
    /\ promocodes[row].for_user_id /= task.user

\* C7 as claimed: a redemption of a recipient-bound code by another user is
\* answered with a rejection (wrong recipient, or an earlier check of the
\* code), and no step of it changes the ledger: no Subscription row, the
\* same used_count, the same flag and expiry of the user
C7_MismatchIsRejected ==
    [][\A r \in ChatTasks :
          (chat'[r] /= chat[r] /\ Mismatched(chat'[r]))
          => /\ UNCHANGED ledger
             /\ chat'[r].pc \in {"get_promo", "done"}
             /\ chat'[r].pc = "done"
                   => chat'[r].outcome \in {"wrong_user", "limit", "inactive", "expired"}]_vars

\* C6 as claimed: the revoke-pass never writes is_subscribed = false over a
\* stored expiry that is in the future at the moment of the write, so a
\* renewal that committed after the pass read the user is not lost
C6_RenewalNotLost ==
    [][\A u \in Users :
          (users[u].is_subscribed /\ ~users'[u].is_subscribed)
          => ~(users[u].subscription_until /= Null /\ users[u].subscription_until > now)]_vars

\* C8: every Subscription row added by a standard payment or by a free code
\* of D months expires exactly 30 * D days after the moment it is added, and
\* the user's expiry is set to the same time, for the durations 1, 3, 6, 12
C8_SameExpiryFormula ==
    [][Len(subscriptions') > Len(subscriptions) =>
          LET row == subscriptions'[Len(subscriptions')] IN
          /\ row.activated_by \in {"payment", "promo"}
          /\ row.duration_months \in {1, 3, 6, 12}
          /\ row.expires_at = now + 30 * row.duration_months * TicksPerDay
          /\ users'[row.user_id].subscription_until = row.expires_at
          /\ users'[row.user_id].is_subscribed]_vars

\* a payment and a free code of the same duration granted at the same moment
C8_Witness ==
    \E i, j \in 1..Len(subscriptions) :
        /\ subscriptions[i].activated_by = "payment"
        /\ subscriptions[j].activated_by = "promo"
        /\ subscriptions[i].duration_months = 12
        /\ subscriptions[j].duration_months = 12
        /\ subscriptions[i].started_at = subscriptions[j].started_at
        /\ subscriptions[i].expires_at = subscriptions[j].expires_at

\* calls logged for a user
Calls(l, e, u) == CopiesIn(Event(e, <<>>, u, ""), l)

\* C9: with the clock standing still, no step of a second (or later)
\* revoke-pass changes the ledger, the channel or the log, so two passes end
\* where one pass ends; and no user is removed or sent the lapsed notice
\* more than once
C9_SecondPassChangesNothing ==
    [][/\ (sweep.pass >= 2 /\ sweep' /= sweep)
              => UNCHANGED <<ledger, members, log>>
       /\ \A u \in Users : Calls(log', "remove", u) <= 1 /\ Calls(log', "lapsed", u) <= 1]_vars

\* two passes are over: one user was revoked and told by the first, another
\* is still inside the grace days and was visited by both
C9_Witness ==
    /\ sweep.pass = 2
    /\ sweep.pc = "idle"
    /\ \E u, v \in Users :
          /\ Calls(log, "remove", u) = 1 /\ Calls(log, "lapsed", u) = 1
          /\ ~users[u].is_subscribed
          /\ users[v].is_subscribed /\ users[v].subscription_until < now

\* whole days since the stored expiry of user u
DaysExpired(u) == DaysBetween(now, users[u].subscription_until)

\* C10: a subscribed user whose expiry passed less than 2 whole days ago is
\* left as is by every step (flag, expiry, channel membership, no removal, no
\* notice); a user the pass visits 2 or more whole days after the expiry is
\* removed from the channel and then marked unsubscribed; and with no
\* renewal a user is removed and marked at most once over all passes
C10_GraceThenRevoke ==
    [][/\ \A u \in Users :
             (/\ users[u].is_subscribed /\ users[u].subscription_until /= Null
              /\ users[u].subscription_until < now /\ DaysExpired(u) < 2)
             => /\ users'[u] = users[u]
                /\ (u \in members => u \in members')
                /\ Calls(log', "remove", u) = Calls(log, "remove", u)
                /\ Calls(log', "lapsed", u) = Calls(log, "lapsed", u)
       /\ (sweep.pc = "visit" /\ sweep' /= sweep /\ DaysExpired(sweep.list[sweep.i].id) >= 2)
             => /\ sweep'.pc = "update"
                /\ Calls(log', "remove", sweep.list[sweep.i].id) = 1
       /\ (sweep.pc = "update" /\ sweep' /= sweep)
             => ~users'[sweep.list[sweep.i].id].is_subscribed
       /\ \A u \in Users :
             /\ Calls(log', "remove", u) <= 1
             /\ ~users[u].is_subscribed => ~users'[u].is_subscribed]_vars

\* after a pass one user is unsubscribed and out of the channel while
\* another, lapsed for less than 2 days, is still subscribed and a member
C10_Witness ==
    /\ sweep.pass >= 1
    /\ sweep.pc = "idle"
    /\ \E u, v \in Users :
          /\ Calls(log, "remove", u) = 1 /\ ~users[u].is_subscribed /\ u \notin members
          /\ users[v].is_subscribed /\ users[v].subscription_until < now
          /\ DaysExpired(v) < 2 /\ v \in members

\* the owning user of the request of task t
Owner(t) == extract_user_id(wh[t].n)

\* C11 as claimed: whenever a notification is answered ok as a duplicate of
\* an order whose Payment has status success while the user is not a member
\* of the channel, no Payment or Subscription row is added and the user is
\* sent one more invite, whatever the user's is_subscribed flag
C11_DuplicateReinvites ==
    [][\A t \in WebhookTasks :
          (/\ wh[t].pc \in {"auto_get", "dup_user", "dup_sub", "dup_access"}
           /\ wh'[t].pc = "done" /\ wh'[t].resp = "ok"
           /\ \E i \in PaymentRows(wh[t].n.order_id) : payments[i].status = "success"
           /\ Owner(t) \notin members)
          => /\ UNCHANGED <<payments, subscriptions>>
             /\ Calls(log', "invite", Owner(t)) = Calls(log, "invite", Owner(t)) + 1]_vars

\* a redemption of a valid code that only gives a discount: a percentage
\* under 100 or a fixed amount under 99999
Discounting(task) ==
    LET row == get_promocode(Upper(task.text)) IN
    /\ task.pc /= "idle"
    /\ row /= 0
    /\ validate(row, task.user) = "ok"
    /\ \/ promocodes[row].discount_type = "percent" /\ promocodes[row].discount_value < 100
       \/ promocodes[row].discount_type = "fixed" /\ promocodes[row].discount_value < 99999

\* C12: no step of a redemption of a valid discount code changes the ledger
\* (Subscription rows, Payment rows, used_count, the user's flag and expiry),
\* and such a redemption ends with the discount outcome, however often the
\* code is redeemed
C12_DiscountChangesNothing ==
    [][\A r \in ChatTasks :
          (chat'[r] /= chat[r] /\ Discounting(chat'[r]))
          => /\ UNCHANGED ledger
             /\ chat'[r].pc \in {"get_promo", "get_user", "done"}
             /\ chat'[r].pc = "done" => chat'[r].outcome = "discount"]_vars

\* the same discount code redeemed twice, its counter still at zero
C12_Witness ==
    \E r1, r2 \in ChatTasks :
        /\ r1 /= r2
        /\ Discounting(chat[r1]) /\ Discounting(chat[r2])
        /\ chat[r1].pc = "done" /\ chat[r2].pc = "done"
        /\ chat[r1].outcome = "discount" /\ chat[r2].outcome = "discount"
        /\ chat[r1].text = chat[r2].text
        /\ promocodes[get_promocode(Upper(chat[r1].text))].used_count = 0

\* rows of the subscriptions table that belong to user u
RowsOf(u) == { i \in 1..Len(subscriptions) : subscriptions[i].user_id = u }

\* C13: once the success notification of a fresh order artclub_<u>_<time>
\* of a user without a subscription, charged at the price of plan P, has
\* been handled, it was answered ok, there is exactly one Payment row for the
\* order, in status success, the user has exactly one Subscription row, of
\* source payment and months(P), was invited exactly once and is subscribed
C13_FirstPurchase ==
    \A t \in WebhookTasks :
        LET n == wh[t].n
            u == ParseInt(n.order_id[2])
        IN  (/\ wh[t].pc = "done"
             /\ \A i \in RowsOf(u) : subscriptions[i].activated_by /= "migration")
            => \E k \in DOMAIN get_plan_config :
                 /\ get_plan_config[k].price = n.sum
                 /\ wh[t].resp = "ok"
                 /\ Cardinality(PaymentRows(n.order_id)) = 1
                 /\ \A i \in PaymentRows(n.order_id) :
                       payments[i].status = "success" /\ payments[i].user_id = u
                 /\ Cardinality(RowsOf(u)) = 1
                 /\ \A i \in RowsOf(u) :
                       /\ subscriptions[i].activated_by = "payment"
                       /\ subscriptions[i].duration_months = get_plan_config[k].months
                 /\ Calls(log, "invite", u) = 1
                 /\ users[u].is_subscribed

\* the 12-month plan bought by a user who had no subscription
C13_Witness ==
    \E t \in WebhookTasks :
        /\ wh[t].pc = "done"
        /\ wh[t].n.sum = 33600
        /\ RowsOf(ParseInt(wh[t].n.order_id[2])) /= {}
        /\ \A i \in RowsOf(ParseInt(wh[t].n.order_id[2])) :
              subscriptions[i].activated_by = "payment" /\ subscriptions[i].duration_months = 12

\* C14 as claimed: in every state, between the calls of a redemption too,
\* the Subscription rows of source promo that name a code are no more than
\* the code's used_count
C14_GrantIsCounted ==
    \A i \in 1..Len(promocodes) :
        Cardinality({ j \in PromoRows(promocodes[i].code) :
                        subscriptions[j].activated_by = "promo" })
            <= promocodes[i].used_count

LastRow(u) == subscriptions[CHOOSE i \in RowsOf(u) : \A j \in RowsOf(u) : j <= i]

\* a payment of task t and a free code of chat r, for one user, both past
\* their add_subscription
BothGranted(t, r) ==
    /\ wh[t].pc \in {"std_invite", "done"}
    /\ (chat[r].pc \in {"use_promo", "invite"}
           \/ (chat[r].pc = "done" /\ chat[r].outcome = "granted"))
    /\ chat[r].user = Owner(t)

\* C17: when a payment and a free code of the same user have both been
\* granted, in whatever interleaving, the user has a Subscription row of
\* each, is subscribed, and the stored expiry is that of the row committed
\* last
C17_BothGrantsKept ==
    \A t \in WebhookTasks, r \in ChatTasks :
        BothGranted(t, r) =>
            LET u == Owner(t) IN
            /\ \E i \in RowsOf(u) : subscriptions[i].activated_by = "payment"
            /\ \E j \in RowsOf(u) : /\ subscriptions[j].activated_by = "promo"
                                    /\ subscriptions[j].promocode = Upper(chat[r].text)
            /\ users[u].is_subscribed
            /\ users[u].subscription_until = LastRow(u).expires_at

\* the free code committed after the payment and set an earlier expiry
C17_Witness ==
    \E t \in WebhookTasks, r \in ChatTasks :
        /\ BothGranted(t, r)
        /\ wh[t].pc = "std_invite"
        /\ LastRow(Owner(t)).activated_by = "promo"
        /\ \E i \in RowsOf(Owner(t)) :
              /\ subscriptions[i].activated_by = "payment"
              /\ subscriptions[i].expires_at > users[Owner(t)].subscription_until

\* C18 as claimed: when one delivery of a success notification was answered
\* with an error after its Payment row had been committed, and another
\* delivery of the same notification has been handled and answered ok, the
\* subscription or gift code of the order has been granted exactly once
C18_RetryGrantsOnce ==
    \A t1, t2 \in WebhookTasks :
        (/\ wh[t1].n = wh[t2].n
         /\ wh[t1].pc = "done" /\ wh[t1].resp = "error"
         /\ wh[t2].pc = "done" /\ wh[t2].resp = "ok"
         /\ PaymentRows(wh[t1].n.order_id) /= {}
         /\ \A i \in PaymentRows(wh[t1].n.order_id) : payments[i].status = "success")
        => Effects(wh[t1].n.order_id) = 1

\* C19: whatever conversation a user is in (promo code entry, promo or gift
\* creation, broadcast composition or confirmation, text editing), a /start
\* message is handled by cmd_start and leaves no conversation pending: the
\* state and its data are cleared and the text is not taken as the input
\* the conversation was waiting for.
C19_StartLeavesConversation ==
    \A u \in Users :
        (fsm[u].text = "/start" /\ fsm[u].was /= NoState)
        => /\ fsm[u].handler = "cmd_start"
           /\ fsm[u].state = NoState
           /\ fsm[u].data = NoData
           /\ fsm[u].bot_text /= "/start"

\* the user id the claimed order of sources gives: the first well-formed one
\* of the explicit user-id field, the extra field of the checkout, the second
\* component of <prefix>_<userid>_<timestamp>, the legacy field; Null if none
ClaimedOwner(n) ==
    LET sources == <<n.user_id, n.customer_extra,
                     IF Len(n.order_id) = 3 THEN n.order_id[2] ELSE Absent,
                     n.tg_user_id>>
        good == { i \in 1..4 : sources[i] /= Absent /\ ParseInt(sources[i]) /= Null }
    IN  IF good = {} THEN Null
        ELSE ParseInt(sources[CHOOSE i \in good : \A j \in good : i <= j])

\* C20: a notification is attributed to the user named by the first source,
\* in the order explicit user-id field, checkout extra field, order
\* identifier, legacy field, that holds a well-formed id: the handler reports
\* an unresolved identity only when none does, and every Payment row of the
\* order carries that user id.
C20_IdentityOrder ==
    \A t \in WebhookTasks :
        wh[t].pc /= "idle"
        => IF wh[t].msg = "Cannot extract user_id"
           THEN ClaimedOwner(wh[t].n) = Null
           ELSE /\ ClaimedOwner(wh[t].n) /= Null
                /\ \A i \in PaymentRows(wh[t].n.order_id) :
                       payments[i].user_id = ClaimedOwner(wh[t].n)

C22_NotSuccessRecordsNothing ==
    [][\A t \in WebhookTasks :
          (wh'[t].n.payment_status \notin {Absent, "success"} /\ wh'[t].pc /= "idle")
          => UNCHANGED ledger]_vars

\* C23: the grant of a new recurring charge writes, to the new Subscription
\* row and to the user, the expiry max(current expiry, now) + 30 days:
\* current expiry + 30 days while that is still ahead, now + 30 days otherwise.
C23_AutopaymentExtends ==
    [][\A t \in WebhookTasks :
          (is_autopayment(wh[t].n) /\ Len(subscriptions') = Len(subscriptions) + 1)
          => LET u == Owner(t)
                 current == users[u].subscription_until
                 from == IF current /= Null /\ current > now THEN current ELSE now
             IN  /\ users'[u].subscription_until = from + Days(30)
                 /\ subscriptions'[Len(subscriptions')].expires_at = from + Days(30)]_vars

\* C24: a grant to a user who is subscribed with an expiry still ahead - by
\* a payment, a recurring charge or a free code of any duration - never
\* leaves the user with an earlier subscription_until than before the grant.
C24_GrantNeverShortens ==
    [][\A u \in Users :
          (/\ users[u].is_subscribed
           /\ users[u].subscription_until > now
           /\ Len(subscriptions') = Len(subscriptions) + 1
           /\ subscriptions'[Len(subscriptions')].user_id = u)
          => users'[u].subscription_until >= users[u].subscription_until]_vars

\* the plan bought by a notification charged at exactly a plan's price
PlanBought(n) == CHOOSE k \in DOMAIN get_plan_config : get_plan_config[k].price = n.sum

\* the success notifications of gift orders charged at a plan's price
GiftPurchase(n) ==
    /\ Len(n.order_id) = 3 /\ n.order_id[1] = "gift"
    /\ n.payment_status = "success"
    /\ \E k \in DOMAIN get_plan_config : get_plan_config[k].price = n.sum

IssuedGifts ==
    { promocodes[i].code : i \in { j \in DOMAIN promocodes :
                                     /\ promocodes[j].is_gift
                                     /\ promocodes[j].for_user_id = Null } }

\* the finished redemptions that found the code in the table
Redemptions(code) ==
    { r \in ChatTasks : /\ chat[r].pc = "done" /\ Upper(chat[r].text) = code
                        /\ chat[r].outcome /= "not_found" }

\* C26: a gift code issued by a gift purchase can be redeemed by any user:
\* of the redemptions that find the code, one is granted (a Subscription of
\* the purchased duration) and every other one is rejected as limit reached.
C26_GiftRedeemableOnce ==
    \A code \in IssuedGifts :
        /\ \A r \in Redemptions(code) : chat[r].outcome \in {"granted", "limit"}
        /\ Redemptions(code) /= {} => Cardinality(Outcomes(code, "granted")) = 1
        /\ \A i \in PromoRows(code) :
               subscriptions[i].duration_months
                   = promocodes[get_promocode(code)].duration_months

\* the standard success notifications whose amount is not within 100 of any
\* price of the plan table (notifications carry no plan field)
UnknownPlan(n) ==
    /\ Len(n.order_id) = 3 /\ n.order_id[1] = "artclub"
    /\ n.payment_type = <<"Card">>
    /\ n.payment_status = "success"
    /\ n.sum /= Null
    /\ \A k \in DOMAIN get_plan_config : Abs(n.sum - get_plan_config[k].price) >= 100

\* C27: a standard success notification whose amount matches no plan is
\* rejected: it is answered with an error and neither a Payment of the
\* order nor a Subscription by payment is ever created for it.
C27_UnknownPlanRejected ==
    \A t \in WebhookTasks :
        (wh[t].pc /= "idle" /\ UnknownPlan(wh[t].n))
        => /\ PaymentRows(wh[t].n.order_id) = {}
           /\ \A i \in DOMAIN subscriptions : subscriptions[i].activated_by /= "payment"
           /\ wh[t].pc = "done" => wh[t].resp = "error"

\* the validation rules a redemption of chat task r violates, in the order
\* of the rules: 1 the code exists, 2 it is active, 3 it is not past its
\* valid_until, 4 used_count is below max_uses, 5 the recipient matches
Violated(r) ==
    LET row == get_promocode(Upper(chat[r].text))
        p == promocodes[row]
        rule(i, broken) == IF broken THEN {i} ELSE {}
    IN  IF row = 0 THEN {1}
        ELSE rule(2, ~p.is_active)
             \cup rule(3, p.valid_until /= Null /\ p.valid_until < now)
             \cup rule(4, p.max_uses /= Null /\ p.used_count >= p.max_uses)
             \cup rule(5, p.is_gift /\ p.for_user_id /= Null
                          /\ p.for_user_id /= chat[r].user)

\* C28: a redemption that violates a validation rule (unknown code,
\* inactive, past valid_until, used_count at max_uses, recipient mismatch)
\* ends at the validation with no side effect: no Subscription row, no
\* change of used_count or of a user's is_subscribed and subscription_until,
\* no invite and no change of the channel's members.
C28_FailedValidationNoEffect ==
    [][\A r \in ChatTasks :
          (chat[r].pc = "get_promo" /\ Violated(r) /= {} /\ chat'[r] /= chat[r])
          => /\ chat'[r].pc = "done" /\ chat'[r].outcome /= "granted"
             /\ UNCHANGED <<ledger, members, log>>]_vars

C28_Witness ==
    \E r \in ChatTasks :
        /\ chat[r].pc = "done" /\ Violated(r) = {5}
        /\ promocodes[1].discount_type = "free"
        /\ subscriptions = <<>> /\ promocodes[1].used_count = 0

\* the outcome of each validation rule, in the order of the rules
RuleOutcome == <<"not_found", "inactive", "expired", "limit", "wrong_user">>

\* C29: a redemption that violates one or several validation rules is
\* answered with the outcome of the first rule it violates, in the order
\* code exists, active, not past valid_until, used_count below max_uses,
\* recipient match; the five outcomes are distinct.
C29_FirstViolatedRule ==
    [][\A r \in ChatTasks :
          (chat[r].pc = "get_promo" /\ Violated(r) /= {} /\ chat'[r] /= chat[r])
          => LET first == CHOOSE i \in Violated(r) : \A j \in Violated(r) : i <= j
             IN  chat'[r].pc = "done" /\ chat'[r].outcome = RuleOutcome[first]]_vars

\* the users of the list the running pass has dealt with
Visited(j) == j < sweep.i \/ (j = sweep.i /\ sweep.pc = "notify")

\* C30: whatever removals Telegram refuses, a revoke-pass goes through the
\* list it read one user at a time, in order and to the end; every user of
\* the list who is past the grace days has been sent to removal and marked
\* unsubscribed once the pass has dealt with that user; and every pass ends.
C30_PassVisitsEveryUser ==
    /\ [](sweep.pc /= "idle"
            => \A j \in 1..Len(sweep.list) :
                 (Visited(j) /\ DaysBetween(now, sweep.list[j].subscription_until)
                                    >= GRACE_DAYS)
                 => /\ ~users[sweep.list[j].id].is_subscribed
                    /\ Calls(log, "remove", sweep.list[j].id) >= 1)
    /\ [][sweep.pc /= "idle"
            => \/ sweep'.pc = "idle" /\ sweep.i = Len(sweep.list)
               \/ /\ sweep'.pc /= "idle" /\ sweep'.list = sweep.list
                  /\ sweep'.i \in {sweep.i, sweep.i + 1}]_vars
    /\ (sweep.pc /= "idle") ~> (sweep.pc = "idle")

\* the removal of user 1 was refused, and the pass went on to remove user 2
C30_Witness ==
    /\ sweep.pc = "idle" /\ sweep.pass = 1
    /\ Calls(log, "remove", 1) = 1 /\ 1 \in members
    /\ Calls(log, "remove", 2) = 1 /\ 2 \notin members
    /\ \A u \in Users : ~users[u].is_subscribed

\* C31: when the lapsed notice of a user cannot be sent, the removal of the
\* user from the channel and the write is_subscribed = false, both made
\* before, are kept as they are, and the pass goes on with the next user of
\* its list (or ends after the last).
C31_NoticeFailureKeepsRevoke ==
    [][(sweep.pc = "notify" /\ sweep' /= sweep /\ log' = log)
          => LET u == sweep.list[sweep.i].id IN
             /\ ~users'[u].is_subscribed
             /\ Calls(log', "remove", u) >= 1
             /\ UNCHANGED <<ledger, members>>
             /\ sweep'.pass = sweep.pass
             /\ IF sweep.i < Len(sweep.list)
                THEN sweep'.pc = "visit" /\ sweep'.i = sweep.i + 1
                                         /\ sweep'.list = sweep.list
                ELSE sweep'.pc = "idle"]_vars

\* user 1 was removed and marked but not told; the pass went on to user 2
C31_Witness ==
    /\ sweep.pass = 1
    /\ Calls(log, "remove", 1) = 1 /\ Calls(log, "lapsed", 1) = 0
    /\ 1 \notin members /\ ~users[1].is_subscribed
    /\ Calls(log, "remove", 2) = 1 /\ Calls(log, "lapsed", 2) = 1

\* C32: the Subscription table only grows at its end: every step leaves the
\* rows that exist as they are and appends at most one row, and the steps of
\* the revoke-pass, of the reminder-pass, of a duplicate delivery and of
\* /start append nothing.
C32_HistoryAppendOnly ==
    [][/\ \/ subscriptions' = subscriptions
          \/ /\ Len(subscriptions') = Len(subscriptions) + 1
             /\ SubSeq(subscriptions', 1, Len(subscriptions)) = subscriptions
       /\ (\/ sweep' /= sweep
           \/ remind' /= remind
           \/ fsm' /= fsm
           \/ \E t \in DOMAIN wh : /\ wh[t].pc \in {"dup_user", "dup_sub", "dup_access"}
                                    /\ wh'[t] /= wh[t])
              => subscriptions' = subscriptions]_vars

\* user 1 holds the migrated row and a later one, after both daily passes
\* and a /start
C32_Witness ==
    /\ \E i, j \in RowsOf(1) : i < j /\ subscriptions[i].activated_by = "migration"
    /\ sweep.pass = 1 /\ sweep.pc = "idle"
    /\ remind.pass = 1 /\ remind.pc = "idle"
    /\ fsm[1].handler = "cmd_start"

\* reminders sent to a user, and reminders Telegram refused
Reminders(l, u) == Calls(l, "reminder", u)
Unsent(l, u) == Calls(l, "unsent", u)

\* C33: a reminder goes out only in the visit of a subscribed user who has
\* exactly REMIND_DAYS whole days left, and such a visit always sends one
\* (Telegram may refuse it); with one pass a day and the expiry as it was, no
\* user is sent a second reminder, and once the passes are over a user has
\* been sent exactly one if a pass fell on the day with REMIND_DAYS left and
\* none otherwise.
C33_RemindedOnceOnTheDay ==
    /\ [][\A u \in Users :
            LET visited == /\ remind.pc = "visit" /\ remind' /= remind
                           /\ remind.list[remind.i].id = u
                due == /\ users[u].is_subscribed
                       /\ users[u].subscription_until /= Null
                       /\ DaysBetween(users[u].subscription_until, now) = REMIND_DAYS
                sends == Reminders(log', u) + Unsent(log', u)
                           - Reminders(log, u) - Unsent(log, u)
            IN  sends = IF visited /\ due THEN 1 ELSE 0]_vars
    /\ [] \A u \in Users :
            /\ Reminders(log, u) + Unsent(log, u) <= 1
            /\ (remind.pass = MaxPasses /\ remind.pc = "idle" /\ users[u].is_subscribed)
                 => LET first == DaysBetween(users[u].subscription_until, StartTime)
                    IN  Reminders(log, u) + Unsent(log, u) =
                          IF /\ first >= REMIND_DAYS
                             /\ first - (MaxPasses - 1) <= REMIND_DAYS
                          THEN 1 ELSE 0

\* both passes are over: user 1 was reminded in the second and user 2 in the
\* first, each once
C33_Witness ==
    /\ remind.pass = MaxPasses /\ remind.pc = "idle"
    /\ DaysBetween(users[1].subscription_until, now) = REMIND_DAYS
    /\ DaysBetween(users[2].subscription_until, now) = REMIND_DAYS - 1
    /\ Reminders(log, 1) = 1 /\ Reminders(log, 2) = 1

\* C34: every user who is marked subscribed has a Subscription row, and the
\* stored subscription_until is the expires_at of the row of the user that
\* was created last.
C34_UntilIsLastRow ==
    \A u \in Users :
        users[u].is_subscribed =>
            /\ RowsOf(u) /= {}
            /\ users[u].subscription_until = LastRow(u).expires_at

\* user 1 lapsed, was revoked by the pass and was granted again afterwards
C34_Witness ==
    /\ Calls(log, "remove", 1) >= 1
    /\ users[1].is_subscribed
    /\ Cardinality(RowsOf(1)) >= 2
    /\ LastRow(1).activated_by /= "migration"
    /\ \E i \in RowsOf(1) : subscriptions[i].expires_at /= users[1].subscription_until

\* the notification carries one of the two signs of a recurring charge
AutopaymentSign(n) == is_autopayment(n) \/ n.subscription_autopayment = "1"

\* C35 as claimed: a success notification of a known user that carries the
\* marker in its payment type or the autopayment flag in its subscription
\* metadata enters the autopayment branch, and the Subscription row granted
\* for it is one cycle long with source autopayment.
C35_AutopaymentByEitherSign ==
    [][\A t \in WebhookTasks :
          /\ (/\ wh[t].pc = "idle" /\ wh'[t].pc \notin {"idle", "done"}
              /\ AutopaymentSign(wh'[t].n))
               => wh'[t].pc = "auto_get"
          /\ (/\ wh'[t] /= wh[t] /\ AutopaymentSign(wh[t].n)
              /\ Len(subscriptions') = Len(subscriptions) + 1)
               => LET row == subscriptions'[Len(subscriptions')] IN
                  /\ row.activated_by = "autopayment"
                  /\ row.duration_months = 1
                  /\ row.expires_at = now + Days(MONTH_DAYS)]_vars

\* C36 as claimed: once the rows of a reconciliation are committed, the step
\* that invites or notifies the user - of a standard purchase, a gift
\* purchase or a recurring charge - ends with the answer ok whether Telegram
\* accepts the call or not, and leaves the ledger as it is.
C36_AccessFailureStillOk ==
    [][\A t \in WebhookTasks :
          (wh[t].pc \in {"std_invite", "gift_notify", "auto_access"} /\ wh'[t].pc = "done")
            => /\ wh'[t].resp = "ok"
               /\ UNCHANGED ledger]_vars

\* C37 as claimed: the revoke-pass marks a user not subscribed only when the
\* removal of that user from the channel has succeeded in the same pass, so
\* no user is not subscribed in the ledger and still a member of the channel.
C37_RevokeOnlyAfterRemoval ==
    /\ [][\A u \in Users :
            (users[u].is_subscribed /\ ~users'[u].is_subscribed) => u \notin members']_vars
    /\ [] \A u \in Users : ~users[u].is_subscribed => u \notin members

\* the user has been granted a subscription since the bot went live
Granted(u) == \E i \in RowsOf(u) : subscriptions[i].activated_by /= "migration"

\* a revoke-pass of the horizon runs after the grace days of the expiry: the
\* passes are MaxPasses at most and the clock stops MaxTicks after StartTime
PassStillToCome(until) ==
    \E k \in 0..(MaxPasses - 1) :
        /\ Days(k) <= MaxTicks
        /\ until + Days(GRACE_DAYS) <= StartTime + Days(k)

\* C38: with the revoke-pass fired every day, a subscribed user whose expiry
\* has passed is in the end marked not subscribed unless a grant reaches the
\* user first (the pass that does it is the first one that finds the grace
\* days over); and a user who is not subscribed becomes subscribed again
\* only by a step that appends a Subscription row of that user.
C38_LapsedEventuallyRevoked ==
    /\ \A u \in Users : \A until \in SweepExpiries :
          (/\ users[u].is_subscribed
           /\ users[u].subscription_until = until
           /\ until < now
           /\ PassStillToCome(until))
             ~> (~users[u].is_subscribed \/ Granted(u))
    /\ [][\A u \in Users :
            (~users[u].is_subscribed /\ users'[u].is_subscribed)
              => /\ Len(subscriptions') = Len(subscriptions) + 1
                 /\ subscriptions'[Len(subscriptions')].user_id = u]_vars

\* user 2 was inside the grace days at the first pass and was revoked by the
\* second, a day later; user 1 was revoked and then charged again
C38_Witness ==
    /\ sweep.pass = 2 /\ sweep.pc = "idle" /\ now = StartTime + Days(1)
    /\ RowsOf(1) /= {} /\ RowsOf(2) /= {}
    /\ LastRow(2).expires_at = StartTime - Days(GRACE_DAYS) + 1
    /\ ~users[2].is_subscribed /\ Calls(log, "remove", 2) = 1
    /\ Calls(log, "remove", 1) = 1 /\ users[1].is_subscribed /\ Granted(1)

\* C39: the step that handles /start of a user who exists writes that user's
\* last_activity (and profile fields) and nothing else: flag and
\* subscription_until of every user, the Subscription rows, the Payment rows,
\* the promo codes and the channel stay as they were.
C39_StartKeepsSubscription ==
    [][\A u \in Users :
          (fsm'[u] /= fsm[u] \/ users'[u].last_activity /= users[u].last_activity)
            => /\ fsm'[u].handler = "cmd_start"
               /\ users' = [users EXCEPT ![u].last_activity = now]
               /\ UNCHANGED <<subscriptions, payments, promocodes, members>>]_vars

\* user 1 paid, is subscribed and has sent /start since
C39_Witness ==
    /\ users[1].is_subscribed /\ users[1].subscription_until /= Null
    /\ users[1].last_activity = now
    /\ fsm[1].handler = "cmd_start"
    /\ \E i \in 1..Len(payments) : payments[i].user_id = 1 /\ payments[i].status = "success"
    /\ \E i \in RowsOf(1) : subscriptions[i].activated_by = "payment"

\* C40: the step of the revoke-pass that marks a user not subscribed sets the
\* user's subscription_until to null and leaves the Subscription rows alone,
\* among them the row that holds the expiry that lapsed; a user who is not
\* subscribed has no stored expiry, whatever the rows of the user say.
C40_RevokeNullsExpiryKeepsHistory ==
    /\ [][\A u \in Users :
            (users[u].is_subscribed /\ ~users'[u].is_subscribed)
              => /\ users'[u].subscription_until = Null
                 /\ subscriptions' = subscriptions
                 /\ \E i \in RowsOf(u) :
                       /\ subscriptions[i].expires_at = users[u].subscription_until
                       /\ subscriptions[i].expires_at < now]_vars
    /\ [] \A u \in Users : ~users[u].is_subscribed => users[u].subscription_until = Null

\* user 2 lapsed at the end of the grace days and was revoked: no stored
\* expiry, the migrated row still says when the subscription ended
C40_Witness ==
    /\ ~users[2].is_subscribed /\ users[2].subscription_until = Null
    /\ Calls(log, "remove", 2) = 1
    /\ RowsOf(2) /= {}
    /\ \A i \in RowsOf(2) : subscriptions[i].expires_at = StartTime - Days(GRACE_DAYS)

====
